---- MODULE Spec2Model ----
(***************************************************************************)
(* Model of frankmeza/rust-notes:                                          *)
(*   the_rust_book/chapter_12_io_cli/src/lib.rs   (Config, run, search)    *)
(*   the_rust_book/chapter_12_io_cli/src/main.rs  (the CLI binary)         *)
(*   20_tcp_server/src/main.rs                    (the connection acceptor)*)
(*                                                                         *)
(* A Rust String / &str is a sequence of one-character strings.            *)
(***************************************************************************)
EXTENDS Integers, Sequences, FiniteSets, TLC

VARIABLES
    query, text,          \* the (query, contents) pair handed to the search functions
    res_s, res_ci,        \* what search / search_case_insensitive returned for it
    args,                 \* env::args() of the process
    env_var,              \* the CASE_INSENSITIVE variable in the process environment
    pc,                   \* position of the running program
    config,               \* the Result of Config::new
    contents,             \* the String read by fs::read_to_string in run
    results,              \* the Vec built by the search in run
    emitted,              \* number of results already printed by run's loop
    ret,                  \* the Result returned by run
    stdout, stderr,       \* lines written to the two streams
    status,               \* exit status of the process, -1 while it runs
    listener,             \* the TcpListener of the acceptor
    backlog,              \* connection attempts that arrived and wait for accept()
    arrived               \* number of connection attempts made so far

vars == <<query, text, res_s, res_ci, args, env_var, pc, config, contents, results,
          emitted, ret, stdout, stderr, status, listener, backlog, arrived>>

searchVars == <<query, text, res_s, res_ci>>
procVars == <<args, env_var, pc, config, contents, results, emitted, ret,
              stdout, stderr, status>>
tcpVars == <<listener, backlog, arrived>>

\* ------------------------------------------------------------------ bounds
MaxText == 5
MaxQuery == 2
MaxArgs == 4
MaxFile == 3
MaxAttempts == 6

\* ------------------------------------------------------------- characters
NL == "\n"
\* "S" stands for U+03A3 GREEK CAPITAL LETTER SIGMA, "s" for U+03C3 (small
\* sigma) and "z" for U+03C2 (small final sigma); "A"/"a" are a plain cased pair.
Sigma == "S"
SmallSigma == "s"
FinalSigma == "z"
Alphabet == {"a", "A", Sigma, NL}

Strs(n) == UNION {[1..k -> Alphabet] : k \in 0..n}

\* ---------------------------------------------------- std string helpers
\* str::lines(): pieces between "\n"; a final empty piece is not a line.
RECURSIVE lines_acc(_, _, _, _)
lines_acc(s, i, cur, acc) ==
    IF i > Len(s)
    THEN IF cur = <<>> THEN acc ELSE Append(acc, cur)
    ELSE IF s[i] = NL
         THEN lines_acc(s, i + 1, <<>>, Append(acc, cur))
         ELSE lines_acc(s, i + 1, Append(cur, s[i]), acc)

lines(s) == lines_acc(s, 1, <<>>, <<>>)

\* str::contains(&str): the needle occurs at some offset of the haystack.
contains(hay, needle) ==
    \E i \in 0..(Len(hay) - Len(needle)) :
        SubSeq(hay, i + 1, i + Len(needle)) = needle

\* core::unicode::Cased, restricted to the characters of the model.
Cased(c) == c \in {"a", "A", Sigma, SmallSigma, FinalSigma}

\* char::to_lowercase for every character but capital sigma.
char_to_lowercase(c) == IF c = "A" THEN "a" ELSE c

\* str::to_lowercase maps each character by char::to_lowercase, except capital
\* sigma: it becomes the final sigma when it ends a word (a cased letter
\* before it, no cased letter after it) and the small sigma otherwise.
\* None of the model's characters is Case_Ignorable, so the neighbour looked at
\* is the adjacent character.
map_uppercase_sigma(s, i) ==
    LET before == i > 1 /\ Cased(s[i - 1])
        after  == i < Len(s) /\ Cased(s[i + 1])
    IN IF before /\ ~after THEN FinalSigma ELSE SmallSigma

to_lowercase(s) ==
    [i \in 1..Len(s) |->
        IF s[i] = Sigma THEN map_uppercase_sigma(s, i) ELSE char_to_lowercase(s[i])]

\* --------------------------------------------------------- lib.rs: search
RECURSIVE search_loop(_, _, _)
search_loop(q, ls, rs) ==
    IF ls = <<>> THEN rs
    ELSE search_loop(q, Tail(ls),
                     IF contains(Head(ls), q)
                     THEN Append(rs, Head(ls)) ELSE rs)

\* bug variant: matches are pushed at the front
RECURSIVE search_loop_front(_, _, _)
search_loop_front(q, ls, rs) ==
    IF ls = <<>> THEN rs
    ELSE search_loop_front(q, Tail(ls),
                     IF contains(Head(ls), q)
                     THEN <<Head(ls)>> \o rs ELSE rs)

search_reversed(q, c) == search_loop_front(q, lines(c), <<>>)

search(q, c) == search_loop(q, lines(c), <<>>)

RECURSIVE search_ci_loop(_, _, _)
search_ci_loop(q, ls, rs) ==
    IF ls = <<>> THEN rs
    ELSE search_ci_loop(q, Tail(ls),
                        IF contains(to_lowercase(Head(ls)), q)
                        THEN Append(rs, Head(ls)) ELSE rs)

\* bug variant: the lowered comparison copy is pushed instead of the line
RECURSIVE search_ci_loop_lowered(_, _, _)
search_ci_loop_lowered(q, ls, rs) ==
    IF ls = <<>> THEN rs
    ELSE search_ci_loop_lowered(q, Tail(ls),
                        IF contains(to_lowercase(Head(ls)), q)
                        THEN Append(rs, to_lowercase(Head(ls))) ELSE rs)

search_case_insensitive_lowered(q, c) ==
    search_ci_loop_lowered(to_lowercase(q), lines(c), <<>>)

\* bug variant: the query is not lowered before the comparison
search_case_insensitive_rawquery(q, c) ==
    search_ci_loop(q, lines(c), <<>>)

search_case_insensitive(q, c) ==
    search_ci_loop(to_lowercase(q), lines(c), <<>>)

\* ------------------------------------------------------------ idle values
NoResult == [done |-> FALSE, lines |-> <<>>]
NoConfig == [ok |-> FALSE, err |-> "", query |-> <<>>, filename |-> <<>>,
             case_sensitive |-> FALSE]
NoRet == [returned |-> FALSE, ok |-> FALSE, err |-> ""]

SearchIdle ==
    /\ query = <<>> /\ text = <<>> /\ res_s = NoResult /\ res_ci = NoResult
ProcIdle ==
    /\ args = <<>> /\ env_var = "absent" /\ pc = "idle" /\ config = NoConfig
    /\ contents = <<>> /\ results = <<>> /\ emitted = 0 /\ ret = NoRet
    /\ stdout = <<>> /\ stderr = <<>> /\ status = -1
TcpIdle ==
    /\ listener = "none" /\ backlog = <<>> /\ arrived = 0

\* ------------------------------------ the two search functions, applied
InitSearch ==
    /\ query \in Strs(MaxQuery)
    /\ text \in Strs(MaxText)
    /\ res_s = NoResult /\ res_ci = NoResult
    /\ ProcIdle /\ TcpIdle

CallSearch ==
    /\ ~res_s.done
    /\ res_s' = [done |-> TRUE, lines |-> search(query, text)]
    /\ UNCHANGED <<query, text, res_ci, procVars, tcpVars>>

CallSearchCaseInsensitive ==
    /\ ~res_ci.done
    /\ res_ci' = [done |-> TRUE, lines |-> search_case_insensitive(query, text)]
    /\ UNCHANGED <<query, text, res_s, procVars, tcpVars>>

NextSearch == CallSearch \/ CallSearchCaseInsensitive

SpecSearch == InitSearch /\ [][NextSearch]_vars

\* ------------------------------------------------ the process's inputs
\* Strings a command-line argument is drawn from.
ArgStrs == {<<>>, <<"A">>}
ArgLists == UNION {[1..k -> ArgStrs] : k \in 0..MaxArgs}

\* States of the CASE_INSENSITIVE variable: not set, set to "", set to some
\* text, set to bytes that are not valid Unicode.
EnvStates == {"absent", "empty", "text", "not_unicode"}

\* Kinds of io::Error fs::read_to_string returns.
IoErrors == {"NotFound", "PermissionDenied", "InvalidData"}

\* What fs::read_to_string(filename) can return, the file system being free:
\* an error, or the text of the file. The empty path names no file.
ReadResults(filename) ==
    {[ok |-> FALSE, err |-> e, text |-> <<>>] :
        e \in (IF filename = <<>> THEN {"NotFound"} ELSE IoErrors)}
    \cup {[ok |-> TRUE, err |-> "", text |-> t] :
        t \in (IF filename = <<>> THEN {} ELSE Strs(MaxFile))}

\* ---------------------------------------------------- lib.rs: Config::new
\* env::var(key).is_err(): NotPresent when the variable is not set, NotUnicode
\* when its value is not valid Unicode, Ok(value) otherwise.
env_var_is_err(v) == v \in {"absent", "not_unicode"}

\* bug variant: the length test asks for one more argument
Config_new_min4(as, ev) ==
    IF Len(as) < 4
    THEN [ok |-> FALSE, err |-> "not enough arguments", query |-> <<>>,
          filename |-> <<>>, case_sensitive |-> FALSE]
    ELSE [ok |-> TRUE, err |-> "", query |-> as[2], filename |-> as[3],
          case_sensitive |-> env_var_is_err(ev)]

\* bug variant: query and filename are taken from each other's position
Config_new_swapped(as, ev) ==
    IF Len(as) < 3
    THEN [ok |-> FALSE, err |-> "not enough arguments", query |-> <<>>,
          filename |-> <<>>, case_sensitive |-> FALSE]
    ELSE [ok |-> TRUE, err |-> "", query |-> as[3], filename |-> as[2],
          case_sensitive |-> env_var_is_err(ev)]

\* args[1] and args[2] of the zero-based slice are as[2] and as[3] here.
Config_new(as, ev) ==
    IF Len(as) < 3
    THEN [ok |-> FALSE, err |-> "not enough arguments", query |-> <<>>,
          filename |-> <<>>, case_sensitive |-> FALSE]
    ELSE [ok |-> TRUE, err |-> "", query |-> as[2], filename |-> as[3],
          case_sensitive |-> env_var_is_err(ev)]

\* ------------------------------------------------------------ lib.rs: run
\* bug variant: the two branches of the if are exchanged
run_results_swapped(cfg, c) ==
    IF cfg.case_sensitive
    THEN search_case_insensitive(cfg.query, c)
    ELSE search(cfg.query, c)

run_results(cfg, c) ==
    IF cfg.case_sensitive
    THEN search(cfg.query, c)
    ELSE search_case_insensitive(cfg.query, c)

InitLib ==
    /\ args \in ArgLists
    /\ env_var \in EnvStates
    /\ pc = "start"
    /\ config = NoConfig
    /\ contents = <<>> /\ results = <<>> /\ emitted = 0 /\ ret = NoRet
    /\ stdout = <<>> /\ stderr = <<>> /\ status = -1
    /\ SearchIdle /\ TcpIdle

\* The caller builds the Config and, when that succeeds, hands it to run.
ConfigNew ==
    /\ pc = "start"
    /\ config' = Config_new(args, env_var)
    /\ pc' = IF config'.ok THEN "run_read" ELSE "done"
    /\ UNCHANGED <<args, env_var, contents, results, emitted, ret, stdout, stderr,
                   status, searchVars, tcpVars>>

\* let contents = fs::read_to_string(config.filename)?;
RunRead ==
    /\ pc = "run_read"
    /\ \E r \in ReadResults(config.filename) :
        IF r.ok
        THEN /\ contents' = r.text
             /\ pc' = "run_search"
             /\ ret' = ret
        ELSE /\ ret' = [returned |-> TRUE, ok |-> FALSE, err |-> r.err]
             /\ pc' = "done"
             /\ contents' = contents
    /\ UNCHANGED <<args, env_var, config, results, emitted, stdout, stderr, status,
                   searchVars, tcpVars>>

\* let results = if config.case_sensitive { .. } else { .. };
RunSearch ==
    /\ pc = "run_search"
    /\ results' = run_results(config, contents)
    /\ emitted' = 0
    /\ pc' = "run_emit"
    /\ UNCHANGED <<args, env_var, config, contents, ret, stdout, stderr, status,
                   searchVars, tcpVars>>

\* one iteration of: for line in results { println!("{}", line); }
RunEmit ==
    /\ pc = "run_emit"
    /\ emitted < Len(results)
    /\ stdout' = Append(stdout, results[emitted + 1])
    /\ emitted' = emitted + 1
    /\ UNCHANGED <<args, env_var, pc, config, contents, results, ret, stderr, status,
                   searchVars, tcpVars>>

\* Ok(())
RunReturn ==
    /\ pc = "run_emit"
    /\ emitted = Len(results)
    /\ ret' = [returned |-> TRUE, ok |-> TRUE, err |-> ""]
    /\ pc' = "done"
    /\ UNCHANGED <<args, env_var, config, contents, results, emitted, stdout, stderr,
                   status, searchVars, tcpVars>>

NextLib == ConfigNew \/ RunRead \/ RunSearch \/ RunEmit \/ RunReturn

SpecLib == InitLib /\ [][NextLib]_vars

\* ------------------------------------------------- main.rs: the CLI binary
NoMainConfig == [ok |-> FALSE, err |-> "", query |-> <<>>, filename |-> <<>>]

\* Config::new of main.rs: the binary's own Config has no case_sensitive.
main_Config_new(as) ==
    IF Len(as) < 3
    THEN [ok |-> FALSE, err |-> "not enough arguments", query |-> <<>>,
          filename |-> <<>>]
    ELSE [ok |-> TRUE, err |-> "", query |-> as[2], filename |-> as[3]]

InitMain ==
    /\ args \in ArgLists
    /\ env_var \in EnvStates
    /\ pc = "start"
    /\ config = NoMainConfig
    /\ contents = <<>> /\ results = <<>> /\ emitted = 0 /\ ret = NoRet
    /\ stdout = <<>> /\ stderr = <<>> /\ status = -1
    /\ SearchIdle /\ TcpIdle

\* let config = Config::new(&args).unwrap_or_else(|err| { println!(..);
\* process::exit(1); });
MainConfigNew ==
    /\ pc = "start"
    /\ config' = main_Config_new(args)
    /\ IF config'.ok
       THEN /\ pc' = "print_query"
            /\ UNCHANGED <<stdout, status>>
       ELSE /\ stdout' = Append(stdout, <<"Problem parsing arguments: ", config'.err>>)
            /\ status' = 1
            /\ pc' = "exited"
    /\ UNCHANGED <<args, env_var, contents, results, emitted, ret, stderr,
                   searchVars, tcpVars>>

\* println!("Searching for {}", config.query);
MainPrintQuery ==
    /\ pc = "print_query"
    /\ stdout' = Append(stdout, <<"Searching for ", config.query>>)
    /\ pc' = "print_file"
    /\ UNCHANGED <<args, env_var, config, contents, results, emitted, ret, stderr,
                   status, searchVars, tcpVars>>

\* println!("In file {}", config.filename);
MainPrintFile ==
    /\ pc = "print_file"
    /\ stdout' = Append(stdout, <<"In file ", config.filename>>)
    /\ pc' = "run_read"
    /\ UNCHANGED <<args, env_var, config, contents, results, emitted, ret, stderr,
                   status, searchVars, tcpVars>>

\* run of main.rs: let contents = fs::read_to_string(config.filename)?;
MainRunRead ==
    /\ pc = "run_read"
    /\ \E r \in ReadResults(config.filename) :
        IF r.ok
        THEN /\ contents' = r.text
             /\ pc' = "run_print"
             /\ ret' = ret
        ELSE /\ ret' = [returned |-> TRUE, ok |-> FALSE, err |-> r.err]
             /\ pc' = "main_end"
             /\ contents' = contents
    /\ UNCHANGED <<args, env_var, config, results, emitted, stdout, stderr, status,
                   searchVars, tcpVars>>

\* run of main.rs: println!("With text:\n{}", contents); Ok(())
MainRunPrint ==
    /\ pc = "run_print"
    /\ stdout' = Append(stdout, <<"With text:", contents>>)
    /\ ret' = [returned |-> TRUE, ok |-> TRUE, err |-> ""]
    /\ pc' = "main_end"
    /\ UNCHANGED <<args, env_var, config, contents, results, emitted, stderr, status,
                   searchVars, tcpVars>>

\* run(config); -- the Result is dropped, main falls off its end: status 0.
MainEnd ==
    /\ pc = "main_end"
    /\ status' = 0
    /\ pc' = "exited"
    /\ UNCHANGED <<args, env_var, config, contents, results, emitted, ret, stdout,
                   stderr, searchVars, tcpVars>>

NextMain ==
    \/ MainConfigNew \/ MainPrintQuery \/ MainPrintFile
    \/ MainRunRead \/ MainRunPrint \/ MainEnd

SpecMain == InitMain /\ [][NextMain]_vars

\* ------------------------------------- 20_tcp_server/main.rs: the acceptor
InitTcp ==
    /\ listener = "none" /\ backlog = <<>> /\ arrived = 0
    /\ args = <<>> /\ env_var = "absent" /\ pc = "start" /\ config = NoConfig
    /\ contents = <<>> /\ results = <<>> /\ emitted = 0 /\ ret = NoRet
    /\ stdout = <<>> /\ stderr = <<>> /\ status = -1
    /\ SearchIdle

\* let listener = TcpListener::bind("127.0.0.1:7878")?;
Bind ==
    /\ pc = "start"
    /\ \E bound \in BOOLEAN :
        IF bound
        THEN /\ listener' = "bound"
             /\ pc' = "accepting"
             /\ UNCHANGED <<ret, stderr, status>>
        ELSE /\ listener' = listener
             /\ ret' = [returned |-> TRUE, ok |-> FALSE, err |-> "AddrInUse"]
             /\ stderr' = Append(stderr, <<"Error: ", "AddrInUse">>)
             /\ status' = 1
             /\ pc' = "exited"
    /\ UNCHANGED <<args, env_var, config, contents, results, emitted, stdout,
                   backlog, arrived, searchVars>>

\* A client attempts a connection; the attempt will either hand a stream to
\* accept() or make accept() return an error.
Arrive ==
    /\ listener = "bound"
    /\ arrived < MaxAttempts
    /\ \E good \in BOOLEAN :
        backlog' = Append(backlog, [id |-> arrived + 1, ok |-> good])
    /\ arrived' = arrived + 1
    /\ UNCHANGED <<listener, procVars, searchVars>>

\* One iteration of the loop over listener.incoming() whose item is Ok(stream):
\* println!("Connection established!: \n{:?}", stream);
AcceptOk ==
    /\ pc = "accepting"
    /\ backlog # <<>>
    /\ Head(backlog).ok
    /\ stdout' = Append(stdout, Head(backlog).id)
    /\ backlog' = Tail(backlog)
    /\ UNCHANGED <<listener, arrived, args, env_var, pc, config, contents, results,
                   emitted, ret, stderr, status, searchVars>>

\* One iteration whose item is Err(e): stream.unwrap() panics, the process
\* ends with status 101 and the listener is gone with it.
AcceptErr ==
    /\ pc = "accepting"
    /\ backlog # <<>>
    /\ ~Head(backlog).ok
    /\ stderr' = Append(stderr, <<"panicked: ", "unwrap on Err">>)
    /\ status' = 101
    /\ pc' = "panicked"
    /\ listener' = "closed"
    /\ backlog' = <<>>
    /\ UNCHANGED <<arrived, args, env_var, config, contents, results, emitted, ret,
                   stdout, searchVars>>

NextTcp == Bind \/ Arrive \/ AcceptOk \/ AcceptErr

SpecTcp == InitTcp /\ [][NextTcp]_vars

\* ------------------------------------------------- claims on the searches
\* out is ls restricted to the indices in keep, in the order of ls: as many
\* elements as kept indices, the kept line i sitting at its rank among them.
KeptInOrder(ls, keep, out) ==
    /\ Len(out) = Cardinality(keep)
    /\ \A i \in keep : out[Cardinality({j \in keep : j <= i})] = ls[i]

RECURSIVE IsSubsequence(_, _)
IsSubsequence(xs, ys) ==
    IF xs = <<>> THEN TRUE
    ELSE IF ys = <<>> THEN FALSE
    ELSE IF Head(xs) = Head(ys) THEN IsSubsequence(Tail(xs), Tail(ys))
    ELSE IsSubsequence(xs, Tail(ys))

HasSigma(s) == \E i \in 1..Len(s) : s[i] = Sigma

\* C1: search(Q, T) is exactly the lines of T that contain Q as a literal
\* substring, in their order in T: none dropped, added, duplicated or reordered.
C1_SearchExactLines ==
    res_s.done =>
        LET ls == lines(text)
        IN KeptInOrder(ls, {i \in 1..Len(ls) : contains(ls[i], query)}, res_s.lines)

\* C1 witness: a search with a non-empty query that kept two different lines
\* and dropped another one.
C1_Witness ==
    /\ res_s.done
    /\ query # <<>>
    /\ Len(res_s.lines) >= 2
    /\ res_s.lines[1] # res_s.lines[2]
    /\ Len(res_s.lines) < Len(lines(text))

\* C2: search_case_insensitive(Q, T) is exactly the lines of T whose lowercase
\* form contains the lowercase form of Q, in order, each returned as the
\* original line of T (original casing), not as its lowered copy.
C2_InsensitiveExactLines ==
    res_ci.done =>
        LET ls == lines(text)
        IN KeptInOrder(ls,
                       {i \in 1..Len(ls) :
                            contains(to_lowercase(ls[i]), to_lowercase(query))},
                       res_ci.lines)

\* C2 witness: a mixed-case query matched a line that is not its own lowercase
\* form, and some other line was dropped.
C2_Witness ==
    /\ res_ci.done
    /\ to_lowercase(query) # query
    /\ \E k \in 1..Len(res_ci.lines) : to_lowercase(res_ci.lines[k]) # res_ci.lines[k]
    /\ Len(res_ci.lines) < Len(lines(text))

\* C10 as stated: for every Q and T, the result of search(Q, T) is a
\* subsequence of the result of search_case_insensitive(Q, T).
C10_SensitiveWithinInsensitive ==
    (res_s.done /\ res_ci.done) => IsSubsequence(res_s.lines, res_ci.lines)

\* C10 amended: for every T and every Q without a capital sigma, the result of
\* search(Q, T) is a subsequence of the result of search_case_insensitive(Q, T).
C10_SensitiveWithinInsensitiveNoSigma ==
    (res_s.done /\ res_ci.done /\ ~HasSigma(query)) =>
        IsSubsequence(res_s.lines, res_ci.lines)

\* C10 witness: a sigma-free query for which the sensitive search matched a
\* line and the insensitive search matched strictly more lines.
C10_Witness ==
    /\ res_s.done /\ res_ci.done /\ ~HasSigma(query)
    /\ Len(res_s.lines) >= 1
    /\ Len(res_ci.lines) > Len(res_s.lines)

\* ------------------------------------------- claims on Config::new and run
\* C3: Config::new fails, with "not enough arguments", exactly when the list
\* has fewer than 3 elements; otherwise the config's query is the argument at
\* position 1 and its filename the argument at position 2.
C3_ConfigNewContract ==
    pc # "start" =>
        /\ ~config.ok <=> Len(args) < 3
        /\ ~config.ok => config.err = "not enough arguments"
        /\ config.ok => (config.query = args[2] /\ config.filename = args[3])

\* C3 witness: a list with a further argument was accepted, its two positional
\* arguments being different.
C3_Witness ==
    /\ pc # "start" /\ config.ok
    /\ Len(args) > 3
    /\ config.query # config.filename

\* C4: in every config produced, case_sensitive is true exactly when the
\* CASE_INSENSITIVE variable is absent, whatever value it has when present.
C4_TogglePresenceOnly ==
    config.ok => (config.case_sensitive <=> env_var = "absent")

\* C7: run is read -> search -> emit. A failed read is returned with nothing
\* emitted; otherwise what is emitted is, at every moment, the first lines of
\* the result of the search config.case_sensitive selects, and success is
\* returned only when all of them have been emitted.
C7_RunPipeline ==
    LET expected == IF config.case_sensitive
                    THEN search(config.query, contents)
                    ELSE search_case_insensitive(config.query, contents)
    IN /\ pc \in {"start", "run_read", "run_search"} => (stdout = <<>> /\ ~ret.returned)
       /\ pc = "run_emit" =>
            /\ ~ret.returned
            /\ emitted <= Len(expected)
            /\ stdout = SubSeq(expected, 1, emitted)
       /\ (ret.returned /\ ~ret.ok) => (stdout = <<>> /\ ret.err \in IoErrors)
       /\ (ret.returned /\ ret.ok) => stdout = expected

\* C7 witness: run returned success after emitting two lines under the
\* insensitive policy, where the sensitive search gives something else.
C7_Witness ==
    /\ ret.returned /\ ret.ok
    /\ ~config.case_sensitive
    /\ Len(stdout) >= 2
    /\ search(config.query, contents) # stdout

\* C8 as stated: every config returned has a non-empty query and filename.
C8_NonEmptyFields ==
    config.ok => (config.query # <<>> /\ config.filename # <<>>)

\* C8 amended: the query of a returned config is non-empty exactly when the
\* argument at position 1 is, and its filename exactly when the argument at
\* position 2 is.
C8_EmptinessFollowsArguments ==
    config.ok =>
        /\ config.query = <<>> <=> args[2] = <<>>
        /\ config.filename = <<>> <=> args[3] = <<>>

\* C8 witness: a config was returned with an empty query and a filename.
C8_Witness ==
    /\ config.ok
    /\ config.query = <<>>
    /\ config.filename # <<>>

\* ------------------------------------------------- claims on the CLI binary
\* C5: after a failed read of the source the process has printed an
\* application-error message, printed no matching line, and its exit status is
\* not 0.
C5_ReadFailureExitsNonZero ==
    (pc = "exited" /\ ret.returned /\ ~ret.ok) =>
        /\ status # 0
        /\ stderr # <<>>
        /\ \A k \in 1..Len(stdout) : stdout[k][1] \in {"Searching for ", "In file "}

\* C6: invoked with fewer than two positional arguments, the process exits with
\* a non-zero status, the "not enough arguments" message is on the error
\* stream and nothing is on the standard output stream.
C6_MissingArgumentsOnStderr ==
    (pc = "exited" /\ Len(args) < 3) =>
        /\ status # 0
        /\ \E k \in 1..Len(stderr) : stderr[k][2] = "not enough arguments"
        /\ stdout = <<>>

\* ---------------------------------------------------- claim on the acceptor
\* C9: once bound, the acceptor has logged the accepted connections in arrival
\* order and is still accepting, whatever attempts were made, failed accepts
\* included.
C9_AcceptsIndefinitely ==
    listener # "none" =>
        /\ pc = "accepting" /\ listener = "bound"
        /\ \A j, k \in 1..Len(stdout) : j < k => stdout[j] < stdout[k]

====
